---- MODULE Spec2Model ----
(***************************************************************************)
(* Credential-rotation client of src/core/youtube_api.py: the APIKeyManager *)
(* pool (api_keys, current_index, exhausted_keys, the persisted state      *)
(* file), _make_api_request (the request executor), the paginated fetch    *)
(* get_playlist_videos / search_videos, the batch fetch get_videos_info    *)
(* and parse_duration.                                                     *)
(*                                                                         *)
(* Indices are 0-based as in the source; api_keys[i + 1] is the source's   *)
(* api_keys[i].                                                            *)
(***************************************************************************)
EXTENDS Integers, Sequences, FiniteSets, TLC

VARIABLES
    \* APIKeyManager
    api_keys,          \* list of credential values
    current_index,     \* rotation cursor
    exhausted_keys,    \* set of indices marked exhausted (memory only)
    state_file,        \* content of KEY_STATE_FILE on disk
    \* the operation in progress or last completed on the manager
    op,
    \* _make_api_request: position and locals
    pc,                \* "idle" | "loop" | "call" | "done"
    params,            \* request parameters (without the key)
    max_retries,
    attempt,
    api_key,           \* key returned by the last get_current_key
    response,          \* last upstream response of this call
    outcome,           \* how the operation ended
    result,            \* the data _make_api_request returned
    \* history of the call in progress
    used,              \* indices whose key was sent upstream, in order
    rotations,         \* rotate_key calls made by this call
    start_index,       \* current_index when the call started
    start_exhausted,   \* exhausted_keys when the call started
    \* consecutive rotate_key calls by the operator
    rot_run,
    rot_start,
    rot_reason,        \* the reason of the caller's last rotate_key, or "none"
    \* the credentials that were exhausted when the process before this one
    \* ended, kept until the first operation of this process has been made
    prev_exhausted,
    \* get_playlist_videos / search_videos: position and locals
    page_pc,           \* "idle" | "loop" | "wait" | "returned" | "raised"
    max_results,
    video_ids,
    next_page_token,   \* <<>> when there is none
    page_requests,     \* _make_api_request calls made by this fetch
    \* the remote collection the fetch reads
    total,             \* number of items it holds
    honest,            \* every page served so far honoured the protocol
    \* get_videos_info: position and locals
    batch_pc,          \* "idle" | "loop" | "wait" | "returned" | "raised"
    ids,               \* the argument video_ids
    batch_i,           \* the loop variable i
    videos,
    \* history of the batch fetch in progress
    batch_calls,       \* the id lists sent upstream, in order
    served,            \* the items of every answer that was returned as data
    batch_rotated,     \* a request of this fetch was refused for quota
    \* parse_duration and the encoder of the durations
    dur_pc,            \* "idle" | "start" | "encoded" | "text" | "returned"
    dur_input,         \* what the encoder is given
    duration_str,      \* the argument of parse_duration
    dur_seconds,       \* what parse_duration returned
    \* the credential sources read by _load_api_keys
    config,            \* <<YOUTUBE_API_KEY, YOUTUBE_API_KEYS, storage keys>>
    \* callers that run _make_api_request at the same time on the one manager
    callers,           \* for each caller: its position and its locals
    refused,           \* the indices whose credential an upstream call refused
    \* APIKeyStorage
    stored             \* the "keys" list of the file .api_keys.json

poolVars == <<api_keys, current_index, exhausted_keys, state_file>>
execVars ==
    <<pc, params, max_retries, attempt, api_key, response, outcome, result>>
histVars == <<used, rotations, start_index, start_exhausted>>
rotVars  == <<rot_run, rot_start, rot_reason>>
pageVars == <<page_pc, max_results, video_ids, next_page_token, page_requests>>
srvVars  == <<total, honest>>
batchVars == <<batch_pc, ids, batch_i, videos>>
batchHist == <<batch_calls, served, batch_rotated>>
durVars == <<dur_pc, dur_input, duration_str, dur_seconds>>
vars ==
    <<poolVars, op, execVars, histVars, rotVars, pageVars, srvVars,
      batchVars, batchHist, durVars, prev_exhausted, config, callers,
      refused, stored>>

(***************************************************************************)
(* Bounds of the model                                                     *)
(***************************************************************************)
\* largest number of configured credential entries (environment + storage)
MaxKeys == 3
\* max_results and the size of the remote collection reach MaxFullPages full
\* pages and a part of one
MaxFullPages == 2
\* page_requests counts up to MaxCounted and stays there
MaxCounted == 4

\* the concurrent callers make up to MaxConcCalls calls together
MaxConcCalls == 2

\* credential values, in the order in which new values are introduced
KeyOrder == <<"A", "B", "C">>
KeyVals == {KeyOrder[i] : i \in 1..Len(KeyOrder)}
Blank == " "
NoKey == ""

Min(a, b) == IF a < b THEN a ELSE b
Max(a, b) == IF a > b THEN a ELSE b
Range(s) == {s[i] : i \in 1..Len(s)}
SeqsUpTo(S, n) == UNION {[1..k -> S] : k \in 0..n}
DistinctSeqsUpTo(S, n) ==
    {s \in SeqsUpTo(S, n) : \A i, j \in 1..Len(s) : s[i] = s[j] => i = j}

(***************************************************************************)
(* APIKeyManager._load_api_keys                                            *)
(*   single_key : YOUTUBE_API_KEY ("" when unset)                          *)
(*   multi_keys : YOUTUBE_API_KEYS split at commas (<<>> when unset or     *)
(*                empty; an entry Blank is a piece that strips to "")      *)
(*   ui_keys    : storage.get_active_keys() (<<>> when storage fails)      *)
(***************************************************************************)
RECURSIVE AddUiKeys(_, _)
AddUiKeys(keys, ui_keys) ==
    IF ui_keys = <<>> THEN keys
    ELSE AddUiKeys(IF Head(ui_keys) \in Range(keys) THEN keys
                   ELSE Append(keys, Head(ui_keys)),
                   Tail(ui_keys))

EnvKeys(single_key, multi_keys) ==
    IF multi_keys # <<>>
    THEN SelectSeq(multi_keys, LAMBDA k : k # Blank)
    ELSE IF single_key # NoKey THEN <<single_key>> ELSE <<>>

LoadApiKeys(single_key, multi_keys, ui_keys) ==
    AddUiKeys(EnvKeys(single_key, multi_keys), ui_keys)

(***************************************************************************)
(* The state file: absent, unreadable, or {"current_index": idx}           *)
(***************************************************************************)
FileAbsent == [kind |-> "absent", idx |-> 0]
FileCorrupt == [kind |-> "corrupt", idx |-> 0]
FileIndex(i) == [kind |-> "index", idx |-> i]

\* APIKeyManager._load_current_index
LoadCurrentIndex(file) ==
    IF file.kind = "index" THEN file.idx ELSE 0

\* outcome of the write in _save_current_index: the exception is swallowed
\* (the file cannot be opened, or the write breaks off after it was emptied)
SaveOutcomes == {"written", "denied", "truncated"}

\* APIKeyManager._save_current_index
SaveCurrentIndex(file, idx, io) ==
    CASE io = "written"   -> FileIndex(idx)
      [] io = "denied"    -> file
      [] io = "truncated" -> FileCorrupt

(***************************************************************************)
(* APIKeyManager.get_current_key                                           *)
(* The result names what the call does: the key it returns or the error it *)
(* raises, and the value it leaves in current_index.                       *)
(***************************************************************************)
KeyResult(o, i, k) == [outcome |-> o, index |-> i, key |-> k]

\* the while loop of lines 97-105
RECURSIVE FindKey(_, _, _, _)
FindKey(keys, idx, exhausted, attempts) ==
    IF attempts >= Len(keys)
    THEN KeyResult("no_available_keys", idx, NoKey)
    ELSE IF idx \notin exhausted
         THEN IF idx < Len(keys)
              THEN KeyResult("key", idx, keys[idx + 1])
              ELSE KeyResult("index_error", idx, NoKey)
         ELSE FindKey(keys, (idx + 1) % Len(keys), exhausted, attempts + 1)

\* get_current_key that moves the cursor on after it has found the key
GetCurrentKeyResultMovesOn(keys, idx, exhausted) ==
    IF keys = <<>>
    THEN KeyResult("no_keys", idx, NoKey)
    ELSE IF Cardinality(exhausted) >= Len(keys)
         THEN KeyResult("all_exhausted", idx, NoKey)
         ELSE LET r == FindKey(keys, idx, exhausted, 0)
              IN IF r.outcome = "key"
                 THEN KeyResult("key", (r.index + 1) % Len(keys), r.key)
                 ELSE r

\* get_current_key that hands out the key under the cursor without looking at
\* exhausted_keys
GetCurrentKeyResultAnyKey(keys, idx, exhausted) ==
    IF keys = <<>>
    THEN KeyResult("no_keys", idx, NoKey)
    ELSE IF idx < Len(keys)
         THEN KeyResult("key", idx, keys[idx + 1])
         ELSE KeyResult("index_error", idx, NoKey)

GetCurrentKeyResult(keys, idx, exhausted) ==
    IF keys = <<>>
    THEN KeyResult("no_keys", idx, NoKey)
    ELSE IF Cardinality(exhausted) >= Len(keys)
         THEN KeyResult("all_exhausted", idx, NoKey)
         ELSE FindKey(keys, idx, exhausted, 0)

(***************************************************************************)
(* APIKeyManager.rotate_key: its effect on the manager                     *)
(***************************************************************************)
Reasons == {"quota_exceeded", "manual"}

\* rotate_key with the two steps in the wrong order: the index is marked
\* after the cursor has moved
RotateKeyMarksNext(reason) ==
    IF api_keys = <<>>
    THEN UNCHANGED poolVars
    ELSE /\ current_index' = (current_index + 1) % Len(api_keys)
         /\ exhausted_keys' = IF reason = "quota_exceeded"
                              THEN exhausted_keys \cup {current_index'}
                              ELSE exhausted_keys
         /\ \E io \in SaveOutcomes :
                state_file' = SaveCurrentIndex(state_file, current_index', io)
         /\ UNCHANGED api_keys

\* rotate_key that saves the state before it moves the cursor
RotateKeySavesOld(reason) ==
    IF api_keys = <<>>
    THEN UNCHANGED poolVars
    ELSE /\ exhausted_keys' = IF reason = "quota_exceeded"
                              THEN exhausted_keys \cup {current_index}
                              ELSE exhausted_keys
         /\ \E io \in SaveOutcomes :
                state_file' = SaveCurrentIndex(state_file, current_index, io)
         /\ current_index' = (current_index + 1) % Len(api_keys)
         /\ UNCHANGED api_keys

\* rotate_key that marks the index whatever the reason is
RotateKeyAlwaysMarks(reason) ==
    IF api_keys = <<>>
    THEN UNCHANGED poolVars
    ELSE /\ exhausted_keys' = exhausted_keys \cup {current_index}
         /\ current_index' = (current_index + 1) % Len(api_keys)
         /\ \E io \in SaveOutcomes :
                state_file' = SaveCurrentIndex(state_file, current_index', io)
         /\ UNCHANGED api_keys

RotateKey(reason) ==
    IF api_keys = <<>>
    THEN UNCHANGED poolVars
    ELSE /\ exhausted_keys' = IF reason = "quota_exceeded"
                              THEN exhausted_keys \cup {current_index}
                              ELSE exhausted_keys
         /\ current_index' = (current_index + 1) % Len(api_keys)
         /\ \E io \in SaveOutcomes :
                state_file' = SaveCurrentIndex(state_file, current_index', io)
         /\ UNCHANGED api_keys

\* APIKeyManager.get_key_count, get_available_key_count
GetKeyCount == Len(api_keys)
GetAvailableKeyCount == Len(api_keys) - Cardinality(exhausted_keys)

(***************************************************************************)
(* Upstream responses.  A body is described by what is_quota_error and     *)
(* response.json() look at: whether it parses, whether it has an "error"   *)
(* object, the reasons of error.errors, error.code, and whether the text   *)
(* of the error mentions "quota".  A page body also carries its items and  *)
(* its nextPageToken (<<>> when absent).                                   *)
(***************************************************************************)
Body(json, error, reason, code, quota_text, items, next) ==
    [json |-> json, error |-> error, reason |-> reason, code |-> code,
     quota_text |-> quota_text, items |-> items, next |-> next]

OkBody(items, next) == Body(TRUE, "none", "", 0, FALSE, items, next)
MalformedBody == Body(FALSE, "none", "", 0, FALSE, <<>>, <<>>)
ErrorBody(reason, code, quota_text) ==
    Body(TRUE, "dict", reason, code, quota_text, <<>>, <<>>)
\* "error" present but not an object
ErrorStringBody == Body(TRUE, "string", "", 0, TRUE, <<>>, <<>>)

NoData == MalformedBody
NoResponse == [kind |-> "none", status |-> 0, body |-> MalformedBody]
NetworkFailure == [kind |-> "neterr", status |-> 0, body |-> MalformedBody]
Http(status, body) == [kind |-> "http", status |-> status, body |-> body]

\* APIKeyManager.is_quota_error
IsQuotaError(data) ==
    /\ data.error = "dict"
    /\ \/ data.reason = "quotaExceeded"
       \/ data.code = 403 /\ data.quota_text

\* requests.Response.raise_for_status
RaisesForStatus(status) == status >= 400 /\ status < 600

\* answers of the remote service that are not a result
ErrorResponses ==
    { NetworkFailure,
      Http(200, MalformedBody),
      Http(403, ErrorBody("quotaExceeded", 403, TRUE)),
      Http(403, ErrorBody("dailyLimitExceeded", 403, TRUE)),
      Http(403, ErrorBody("forbidden", 403, FALSE)),
      Http(403, ErrorStringBody),
      Http(500, ErrorBody("backendError", 500, FALSE)) }

\* what the remote service may answer to a request for one entity
DirectResponses == ErrorResponses \cup {Http(200, OkBody(<<>>, <<>>))}

(***************************************************************************)
(* Configurations of the credential sources, and the lists they load       *)
(***************************************************************************)
Configs ==
    { c \in (KeyVals \cup {NoKey})
              \X SeqsUpTo(KeyVals \cup {Blank}, MaxKeys)
              \X DistinctSeqsUpTo(KeyVals, MaxKeys) :
        Len(c[2]) + Len(c[3]) <= MaxKeys }

\* Credential values are opaque and only compared for equality, so of the
\* lists that differ by a renaming of the values one is kept: the one that
\* introduces the values in the order of KeyOrder.
Canonical(keys) ==
    \A i \in 1..Len(keys) : \A k \in 2..Len(KeyOrder) :
        keys[i] = KeyOrder[k] => \E j \in 1..(i - 1) : keys[j] = KeyOrder[k - 1]

\* the sources as they are before a process has read them
NoConfig == <<NoKey, <<>>, <<>>>>

KeyLists ==
    {keys \in {LoadApiKeys(c[1], c[2], c[3]) : c \in Configs} : Canonical(keys)}

NoParams == [maxResults |-> 0, pageToken |-> <<>>]

\* the encoder of the durations was given nothing
NoInput == [h |-> 0, m |-> 0, s |-> 0, shown |-> {}]

Quiescent == pc \in {"idle", "done"}

\* the callers of the concurrent runs, and a caller that has called nothing
Callers == {1, 2}
CallerIdle ==
    [pc |-> "idle", max_retries |-> 0, attempt |-> 0, attempts |-> 0,
     tmp |-> 0, held |-> 0, calls |-> 0, outcome |-> "none", made |-> 0]

\* what a process that has ended leaves behind: the state file
NoProcess ==
    /\ api_keys' = <<>>
    /\ current_index' = 0
    /\ exhausted_keys' = {}
    /\ UNCHANGED state_file

\* a construction that does not read the state file
ConstructFromZero(keys, file) ==
    /\ api_keys' = keys
    /\ current_index' = 0
    /\ exhausted_keys' = {}
    /\ state_file' = file

\* APIKeyManager.__init__ of a process that finds `file` on disk
Construct(keys, file) ==
    /\ api_keys' = keys
    /\ current_index' = LoadCurrentIndex(file)
    /\ exhausted_keys' = {}
    /\ state_file' = file

HistIdle ==
    /\ used' = <<>>
    /\ rotations' = 0
    /\ start_index' = 0
    /\ start_exhausted' = {}

ExecIdle ==
    /\ params' = NoParams
    /\ max_retries' = 0
    /\ attempt' = 0
    /\ api_key' = NoKey
    /\ response' = NoResponse
    /\ outcome' = "none"
    /\ result' = NoData
    /\ HistIdle

\* no operation has been called yet: the locals and the histories are empty
IdleLocals ==
    /\ callers = [t \in Callers |-> CallerIdle]
    /\ refused = {}
    /\ stored = <<>>
    /\ params = NoParams
    /\ max_retries = 0
    /\ attempt = 0
    /\ api_key = NoKey
    /\ response = NoResponse
    /\ outcome = "none"
    /\ result = NoData
    /\ used = <<>>
    /\ rotations = 0
    /\ start_index = 0
    /\ start_exhausted = {}
    /\ rot_run = 0
    /\ rot_start = 0
    /\ rot_reason = "none"
    /\ prev_exhausted = {}
    /\ page_pc = "idle"
    /\ video_ids = <<>>
    /\ next_page_token = <<>>
    /\ page_requests = 0
    /\ honest = TRUE
    /\ batch_pc = "idle"
    /\ batch_i = 0
    /\ videos = <<>>
    /\ batch_calls = <<>>
    /\ served = <<>>
    /\ batch_rotated = FALSE

\* the first process: APIKeyManager.__init__ with `keys` loaded and `file` on
\* disk, nothing called yet
InitWith(keys, file) ==
    /\ api_keys = keys
    /\ state_file = file
    /\ current_index = LoadCurrentIndex(file)
    /\ exhausted_keys = {}
    /\ op = "init"
    /\ pc = "idle"
    /\ config = NoConfig
    /\ IdleLocals

\* parse_duration has not been called
DurIdle ==
    /\ dur_pc = "idle"
    /\ dur_input = NoInput
    /\ duration_str = <<>>
    /\ dur_seconds = 0

Init ==
    /\ \E keys \in KeyLists, file \in {FileAbsent, FileCorrupt} :
           InitWith(keys, file)
    /\ max_results = 0
    /\ total = 0
    /\ ids = <<>>
    /\ DurIdle

\* the process ends: its memory is lost, the state file stays
Exit ==
    /\ Quiescent
    /\ NoProcess
    /\ prev_exhausted' =
           {api_keys[i + 1] : i \in {x \in exhausted_keys : x < Len(api_keys)}}
    /\ op' = "exit"
    /\ ExecIdle
    /\ pc' = "stopped"
    /\ rot_run' = 0
    /\ rot_start' = 0
    /\ rot_reason' = "none"
    /\ UNCHANGED <<pageVars, srvVars, batchVars, batchHist>>
    /\ UNCHANGED durVars
    /\ UNCHANGED <<config, callers, refused, stored>>

\* a new process is started, maybe with other credentials configured
Start ==
    /\ pc = "stopped"
    /\ \E keys \in KeyLists : Construct(keys, state_file)
    /\ op' = "init"
    /\ ExecIdle
    /\ pc' = "idle"
    /\ rot_run' = 0
    /\ rot_start' = 0
    /\ rot_reason' = "none"
    /\ UNCHANGED <<pageVars, srvVars, batchVars, batchHist>>
    /\ UNCHANGED durVars
    /\ UNCHANGED <<config, callers, refused, stored>>
    /\ UNCHANGED prev_exhausted

\* a caller asks the manager for the current key
GetCurrentKey ==
    /\ Quiescent
    /\ LET r == GetCurrentKeyResult(api_keys, current_index, exhausted_keys)
       IN /\ current_index' = r.index
          /\ api_key' = r.key
          /\ outcome' = r.outcome
    /\ op' = "get_current_key"
    /\ pc' = "done"
    /\ UNCHANGED <<api_keys, exhausted_keys, state_file>>
    /\ params' = NoParams
    /\ max_retries' = 0
    /\ attempt' = 0
    /\ response' = NoResponse
    /\ result' = NoData
    /\ HistIdle
    /\ rot_run' = 0
    /\ rot_start' = 0
    /\ rot_reason' = "none"
    /\ UNCHANGED <<pageVars, srvVars, batchVars, batchHist>>
    /\ UNCHANGED durVars
    /\ UNCHANGED <<config, callers, refused, stored>>
    /\ prev_exhausted' = IF op = "init" THEN prev_exhausted ELSE {}

\* a caller rotates the key; rot_run counts the rotations made in a row and
\* rot_start is the cursor the run started from
RotateKeyOp ==
    /\ Quiescent
    /\ \E reason \in Reasons : RotateKey(reason) /\ rot_reason' = reason
    /\ op' = "rotate_key"
    /\ pc' = "done"
    /\ ExecIdle
    /\ IF op = "rotate_key" /\ rot_run < Len(api_keys)
       THEN rot_run' = rot_run + 1 /\ rot_start' = rot_start
       ELSE rot_run' = 1 /\ rot_start' = current_index
    /\ UNCHANGED <<pageVars, srvVars, batchVars, batchHist>>
    /\ UNCHANGED durVars
    /\ UNCHANGED <<config, callers, refused, stored>>
    /\ prev_exhausted' = IF op = "init" THEN prev_exhausted ELSE {}

(***************************************************************************)
(* _make_api_request                                                       *)
(***************************************************************************)
\* lines 190-193: the retry bound is taken once, at the start of the call
ExecStart(p) ==
    /\ op' = "execute"
    /\ pc' = "loop"
    /\ params' = p
    /\ max_retries' = GetKeyCount
    /\ attempt' = 0
    /\ api_key' = NoKey
    /\ response' = NoResponse
    /\ outcome' = "none"
    /\ result' = NoData
    /\ used' = <<>>
    /\ rotations' = 0
    /\ start_index' = current_index
    /\ start_exhausted' = exhausted_keys
    /\ rot_run' = 0
    /\ rot_start' = 0
    /\ rot_reason' = "none"
    /\ UNCHANGED poolVars

\* lines 194-197: the loop test and get_current_key; lines 223-227 when the
\* attempts are used up
ExecLoop ==
    /\ pc = "loop"
    /\ IF attempt < max_retries
       THEN LET r == GetCurrentKeyResult(api_keys, current_index, exhausted_keys)
            IN /\ current_index' = r.index
               /\ api_key' = r.key
               /\ IF r.outcome = "key"
                  THEN pc' = "call" /\ outcome' = outcome
                  ELSE pc' = "done" /\ outcome' = r.outcome
       ELSE /\ pc' = "done"
            /\ outcome' = "retries_exhausted"
            /\ UNCHANGED <<current_index, api_key>>
    /\ UNCHANGED <<api_keys, exhausted_keys, state_file>>
    /\ UNCHANGED <<op, params, max_retries, attempt, response, result>>
    /\ UNCHANGED <<histVars, rotVars>>
    /\ UNCHANGED <<pageVars, srvVars, batchVars, batchHist>>
    /\ UNCHANGED durVars
    /\ UNCHANGED <<config, callers, refused, stored>>
    /\ UNCHANGED prev_exhausted

\* how response.json() fails: requests raises its own JSONDecodeError, a
\* RequestException (caught at line 219), or, before requests 2.27, a plain
\* ValueError (which leaves _make_api_request as it is)
JsonErrors == {"network_error", "value_error"}

\* a network error that is retried like a quota error
OnNetworkErrorRetry ==
    /\ RotateKey("manual")
    /\ attempt' = attempt + 1
    /\ rotations' = rotations + 1
    /\ pc' = "loop"
    /\ outcome' = outcome
    /\ result' = NoData

\* lines 219-221: requests.get raised; the error is not retried
OnNetworkError ==
    /\ pc' = "done"
    /\ outcome' = "network_error"
    /\ result' = NoData
    /\ UNCHANGED <<poolVars, attempt, rotations>>

\* line 206: the body is not JSON
OnJsonError ==
    /\ pc' = "done"
    /\ outcome' \in JsonErrors
    /\ result' = NoData
    /\ UNCHANGED <<poolVars, attempt, rotations>>

\* a quota error that goes round again without rotating or counting
OnQuotaErrorNoRotate ==
    /\ pc' = "loop"
    /\ outcome' = outcome
    /\ result' = NoData
    /\ UNCHANGED <<poolVars, attempt, rotations>>

\* a quota error where a failed write of the state file ends the request
OnQuotaErrorFailsOnWrite ==
    /\ exhausted_keys' = exhausted_keys \cup {current_index}
    /\ current_index' = (current_index + 1) % Len(api_keys)
    /\ UNCHANGED api_keys
    /\ rotations' = rotations + 1
    /\ result' = NoData
    /\ \E io \in SaveOutcomes :
           /\ state_file' = SaveCurrentIndex(state_file, current_index', io)
           /\ IF io = "written"
              THEN attempt' = attempt + 1 /\ pc' = "loop" /\ outcome' = outcome
              ELSE attempt' = attempt /\ pc' = "done" /\ outcome' = "io_error"
\* lines 209-212: quota error: rotate, count the attempt, go round again
OnQuotaError ==
    /\ RotateKey("quota_exceeded")
    /\ attempt' = attempt + 1
    /\ rotations' = rotations + 1
    /\ pc' = "loop"
    /\ outcome' = outcome
    /\ result' = NoData

\* any error status handled as a quota error
OnAnswerRetry(resp) ==
    IF RaisesForStatus(resp.status)
    THEN /\ RotateKey("quota_exceeded")
         /\ attempt' = attempt + 1
         /\ rotations' = rotations + 1
         /\ pc' = "loop"
         /\ outcome' = outcome
         /\ result' = NoData
    ELSE /\ pc' = "done"
         /\ outcome' = "ok"
         /\ result' = resp.body
         /\ UNCHANGED <<poolVars, attempt, rotations>>

\* an answer after which the pool moves on to the next credential
OnAnswerRotates(resp) ==
    /\ pc' = "done"
    /\ IF RaisesForStatus(resp.status)
       THEN outcome' = "network_error" /\ result' = NoData
       ELSE outcome' = "ok" /\ result' = resp.body
    /\ RotateKey("manual")
    /\ UNCHANGED <<attempt, rotations>>

\* lines 214-217: raise_for_status (an HTTPError is a RequestException, caught
\* at line 219), else the data is returned
OnAnswer(resp) ==
    /\ pc' = "done"
    /\ IF RaisesForStatus(resp.status)
       THEN outcome' = "network_error" /\ result' = NoData
       ELSE outcome' = "ok" /\ result' = resp.body
    /\ UNCHANGED <<poolVars, attempt, rotations>>

\* a retry after a quota error that starts again from the first page
ExecCallRetriesFromStart(resp) ==
    /\ pc = "call"
    /\ response' = resp
    /\ used' = Append(used, current_index)
    /\ CASE resp.kind = "neterr" -> OnNetworkError
         [] resp.kind = "http" /\ ~resp.body.json -> OnJsonError
         [] resp.kind = "http" /\ resp.body.json /\ IsQuotaError(resp.body) ->
              OnQuotaError
         [] resp.kind = "http" /\ resp.body.json /\ ~IsQuotaError(resp.body) ->
              OnAnswer(resp)
    /\ params' = IF resp.kind = "http" /\ resp.body.json
                    /\ IsQuotaError(resp.body)
                 THEN [params EXCEPT !.pageToken = <<>>]
                 ELSE params
    /\ UNCHANGED <<op, max_retries, api_key>>
    /\ UNCHANGED <<start_index, start_exhausted, rotVars>>

\* lines 200-221: the request is sent with api_key and the answer handled
ExecCall(resp) ==
    /\ pc = "call"
    /\ response' = resp
    /\ used' = Append(used, current_index)
    /\ CASE resp.kind = "neterr" -> OnNetworkError
         [] resp.kind = "http" /\ ~resp.body.json -> OnJsonError
         [] resp.kind = "http" /\ resp.body.json /\ IsQuotaError(resp.body) ->
              OnQuotaError
         [] resp.kind = "http" /\ resp.body.json /\ ~IsQuotaError(resp.body) ->
              OnAnswer(resp)
    /\ UNCHANGED <<op, params, max_retries, api_key>>
    /\ UNCHANGED <<start_index, start_exhausted, rotVars>>

\* a caller makes one request (get_channel_info, get_channel_by_handle)
Execute ==
    /\ Quiescent
    /\ ExecStart(NoParams)
    /\ UNCHANGED <<pageVars, srvVars, batchVars, batchHist>>
    /\ UNCHANGED durVars
    /\ UNCHANGED <<config, callers, refused, stored>>
    /\ prev_exhausted' = IF op = "init" THEN prev_exhausted ELSE {}

ExecRespond ==
    /\ \E resp \in DirectResponses : ExecCall(resp)
    /\ UNCHANGED <<pageVars, srvVars, batchVars, batchHist>>
    /\ UNCHANGED durVars
    /\ UNCHANGED <<config, callers, refused, stored>>
    /\ UNCHANGED prev_exhausted

Next ==
    \/ Exit
    \/ Start
    \/ GetCurrentKey
    \/ RotateKeyOp
    \/ Execute
    \/ ExecLoop
    \/ ExecRespond

Spec == Init /\ [][Next]_vars

(***************************************************************************)
(* get_playlist_videos (search_videos runs the same loop on the search     *)
(* endpoint).  Items are numbered 1, 2, ... in the order of the remote     *)
(* collection; an item 0 is one that carries no video id.  A continuation  *)
(* token <<k>> stands for "k items were served before this page".          *)
(***************************************************************************)
PageCap == 50
PartPages == {0, 1, 20}
Sizes == {k * PageCap + d : k \in 0..MaxFullPages, d \in PartPages}

\* line 321
PageSizeAlwaysCap == PageCap
PageSize == Min(PageCap, max_results - Len(video_ids))

\* lines 318-325
PageParams == [maxResults |-> PageSize, pageToken |-> next_page_token]

\* lines 329-332
ExtractIds(items) == SelectSeq(items, LAMBDA id : id # 0)

Items(offset, count) == [i \in 1..count |-> offset + i]
Offset(token) == IF token = <<>> THEN 0 ELSE token[1]

\* the page a service holding `size` items serves when it honours the
\* requested page size and gives a token on every page but the last
HonestPage(p, size) ==
    LET offset == Offset(p.pageToken)
        count == Min(p.maxResults, Max(size - offset, 0))
    IN Http(200, OkBody(Items(offset, count),
                        IF offset + count < size THEN <<offset + count>> ELSE <<>>))

\* the items with the id of the first one missing
HideFirstId(items) ==
    IF items = <<>> THEN items ELSE <<0>> \o Tail(items)

\* the pages a service may serve: also more items than asked for, no items
\* but a token, an item without id
Pages(p, size) ==
    LET offset == Offset(p.pageToken)
        over == p.maxResults + 1
    IN { HonestPage(p, size),
         Http(200, OkBody(Items(offset, over), <<>>)),
         Http(200, OkBody(Items(offset, over), <<offset + over>>)),
         Http(200, OkBody(<<>>, <<offset>>)),
         Http(200, OkBody(HideFirstId(HonestPage(p, size).body.items),
                          HonestPage(p, size).body.next)) }

\* the errors a page request may meet
PageErrors ==
    { NetworkFailure,
      Http(403, ErrorBody("quotaExceeded", 403, TRUE)),
      Http(500, ErrorBody("backendError", 500, FALSE)) }

PageQuiescent == page_pc \in {"idle", "returned", "raised"}

\* a fetch that starts with the token the fetch before it ended with
GetPlaylistVideosKeepsToken ==
    /\ PageQuiescent
    /\ Quiescent
    /\ page_pc' = "loop"
    /\ video_ids' = <<>>
    /\ next_page_token' = next_page_token
    /\ page_requests' = 0
    /\ honest' = TRUE
    /\ ExecIdle
    /\ pc' = "idle"
    /\ UNCHANGED <<poolVars, op, rotVars, max_results, total>>
    /\ UNCHANGED <<batchVars, batchHist>>
    /\ UNCHANGED durVars
    /\ UNCHANGED <<config, callers, refused, stored>>
    /\ UNCHANGED prev_exhausted

\* lines 311-314: a fetch starts from the first page (max_results is the
\* argument of the call)
GetPlaylistVideos ==
    /\ PageQuiescent
    /\ Quiescent
    /\ page_pc' = "loop"
    /\ video_ids' = <<>>
    /\ next_page_token' = <<>>
    /\ page_requests' = 0
    /\ honest' = TRUE
    /\ ExecIdle
    /\ pc' = "idle"
    /\ UNCHANGED <<poolVars, op, rotVars, max_results, total>>
    /\ UNCHANGED <<batchVars, batchHist>>
    /\ UNCHANGED durVars
    /\ UNCHANGED <<config, callers, refused, stored>>
    /\ UNCHANGED prev_exhausted

\* lines 317-327: the loop test, the parameters and the request
PageLoop ==
    /\ page_pc = "loop"
    /\ IF Len(video_ids) < max_results
       THEN /\ ExecStart(PageParams)
            /\ page_pc' = "wait"
            /\ page_requests' = Min(page_requests + 1, MaxCounted)
       ELSE /\ page_pc' = "returned"
            /\ UNCHANGED <<poolVars, op, execVars, histVars, rotVars>>
            /\ UNCHANGED page_requests
    /\ UNCHANGED <<max_results, video_ids, next_page_token, srvVars>>
    /\ UNCHANGED <<batchVars, batchHist>>
    /\ UNCHANGED durVars
    /\ UNCHANGED <<config, callers, refused, stored>>
    /\ UNCHANGED prev_exhausted

\* the remote service answers the page request
PageRespond ==
    /\ page_pc = "wait"
    /\ \E resp \in PageErrors \cup Pages(params, total) :
          /\ ExecCall(resp)
          /\ honest' = (honest /\ (resp \in PageErrors
                                     \/ resp = HonestPage(params, total)))
    /\ UNCHANGED <<pageVars, total>>
    /\ UNCHANGED <<batchVars, batchHist>>
    /\ UNCHANGED durVars
    /\ UNCHANGED <<config, callers, refused, stored>>
    /\ UNCHANGED prev_exhausted

\* a fetch that asks for another page although the response had no token
PageReceiveIgnoresEnd ==
    /\ page_pc = "wait"
    /\ pc = "done"
    /\ IF outcome = "ok"
       THEN /\ video_ids' = video_ids \o ExtractIds(result.items)
            /\ next_page_token' = result.next
            /\ page_pc' = "loop"
       ELSE /\ page_pc' = "raised"
            /\ video_ids' = <<>>
            /\ next_page_token' = <<>>
    /\ UNCHANGED <<max_results, page_requests, srvVars>>
    /\ UNCHANGED <<poolVars, op, execVars, histVars, rotVars>>
    /\ UNCHANGED <<batchVars, batchHist>>
    /\ UNCHANGED durVars
    /\ UNCHANGED <<config, callers, refused, stored>>
    /\ UNCHANGED prev_exhausted

\* lines 327-338: the ids of the page are appended and the token kept; an
\* error of _make_api_request leaves the function
PageReceive ==
    /\ page_pc = "wait"
    /\ pc = "done"
    /\ IF outcome = "ok"
       THEN /\ video_ids' = video_ids \o ExtractIds(result.items)
            /\ next_page_token' = result.next
            /\ page_pc' = IF result.next = <<>> THEN "returned" ELSE "loop"
       ELSE /\ page_pc' = "raised"
            /\ video_ids' = <<>>
            /\ next_page_token' = <<>>
    /\ UNCHANGED <<max_results, page_requests, srvVars>>
    /\ UNCHANGED <<poolVars, op, execVars, histVars, rotVars>>
    /\ UNCHANGED <<batchVars, batchHist>>
    /\ UNCHANGED durVars
    /\ UNCHANGED <<config, callers, refused, stored>>
    /\ UNCHANGED prev_exhausted

\* a process with two credentials; the caller asks for max_results items of
\* a collection of `total` items, maybe several times
PageInit ==
    /\ InitWith(LoadApiKeys(NoKey, <<"A", "B">>, <<>>), FileAbsent)
    /\ max_results \in Sizes
    /\ total \in Sizes
    /\ ids = <<>>
    /\ DurIdle

PageNext ==
    \/ GetPlaylistVideos
    \/ PageLoop
    \/ ExecLoop
    \/ PageRespond
    \/ PageReceive

PageSpec == PageInit /\ [][PageNext]_vars

\* The code is one thread of blocking calls: a step of the loops that can be
\* taken is taken, and every request is answered or ends in a network error
\* (the timeout of line 203).  Which answer the remote service gives, and
\* whether the caller fetches again, is left open.
PageFairSpec ==
    /\ PageSpec
    /\ WF_vars(PageLoop)
    /\ WF_vars(ExecLoop)
    /\ WF_vars(PageRespond)
    /\ WF_vars(PageReceive)

(***************************************************************************)
(* get_videos_info.  The ids of the argument are numbered 1, 2, ... and an *)
(* item of an answer is the number of the video it describes, 0 when it    *)
(* carries no "id".  Of the dict built at lines 372-384 the model keeps    *)
(* video_id.                                                               *)
(***************************************************************************)
BatchSize == 50

\* the slice taken one id too long
BatchIdsOverlap ==
    SubSeq(ids, batch_i + 1, Min(batch_i + BatchSize + 1, Len(ids)))

\* line 357: video_ids[i:i + 50]
BatchIds == SubSeq(ids, batch_i + 1, Min(batch_i + BatchSize, Len(ids)))

\* lines 359-362
BatchParams == [maxResults |-> 0, pageToken |-> <<>>, id |-> BatchIds]

\* lines 372-384
VideoOf(item) == [video_id |-> item]

\* every video put at the front of the list
VideosOfPrepending(items) ==
    [k \in 1..Len(items) |-> VideoOf(items[Len(items) + 1 - k])]

VideosOf(items) == [k \in 1..Len(items) |-> VideoOf(items[k])]

\* item["id"] of line 373 raises KeyError
RaisesKeyError(items) == 0 \in Range(items)

Reverse(s) == [k \in 1..Len(s) |-> s[Len(s) + 1 - k]]

\* the answers the videos endpoint may give to a request for the ids p.id:
\* all of them, all but one, in another order, none, one that was not asked
\* for, an item without id
Answers(p) ==
    { Http(200, OkBody(p.id, <<>>)),
      Http(200, OkBody(Tail(p.id), <<>>)),
      Http(200, OkBody(Reverse(p.id), <<>>)),
      Http(200, OkBody(<<>>, <<>>)),
      Http(200, OkBody(Append(p.id, p.id[Len(p.id)] + 1), <<>>)),
      Http(200, OkBody(HideFirstId(p.id), <<>>)) }

\* the answer holds no more items than ids were asked for
AnswersAsked(items, asked) == Len(items) <= Len(asked)

BatchQuiescent == batch_pc \in {"idle", "returned", "raised"}

\* lines 349-353
GetVideosInfo ==
    /\ BatchQuiescent
    /\ PageQuiescent
    /\ Quiescent
    /\ batch_pc' = IF ids = <<>> THEN "returned" ELSE "loop"
    /\ batch_i' = 0
    /\ videos' = <<>>
    /\ batch_calls' = <<>>
    /\ served' = <<>>
    /\ batch_rotated' = FALSE
    /\ honest' = TRUE
    /\ ExecIdle
    /\ pc' = "idle"
    /\ UNCHANGED <<poolVars, op, rotVars, pageVars, total, ids>>
    /\ UNCHANGED durVars
    /\ UNCHANGED <<config, callers, refused, stored>>
    /\ UNCHANGED prev_exhausted

\* lines 356-365: the next batch is requested; line 389 after the last one
BatchLoop ==
    /\ batch_pc = "loop"
    /\ IF batch_i < Len(ids)
       THEN /\ ExecStart(BatchParams)
            /\ batch_pc' = "wait"
       ELSE /\ batch_pc' = "returned"
            /\ UNCHANGED <<poolVars, op, execVars, histVars, rotVars>>
    /\ UNCHANGED <<ids, batch_i, videos, batchHist, pageVars, srvVars>>
    /\ UNCHANGED durVars
    /\ UNCHANGED <<config, callers, refused, stored>>
    /\ UNCHANGED prev_exhausted

\* the remote service answers the request for a batch
BatchRespond ==
    /\ batch_pc = "wait"
    /\ \E resp \in PageErrors \cup Answers(params) :
          /\ ExecCall(resp)
          /\ batch_calls' = Append(batch_calls, params.id)
          /\ served' = IF outcome' = "ok"
                       THEN Append(served, resp.body.items)
                       ELSE served
          /\ batch_rotated' = (batch_rotated \/ rotations' > rotations)
          /\ honest' = (honest /\ (resp \in PageErrors
                                     \/ AnswersAsked(resp.body.items, params.id)))
    /\ UNCHANGED <<batchVars, pageVars, total>>
    /\ UNCHANGED durVars
    /\ UNCHANGED <<config, callers, refused, stored>>
    /\ UNCHANGED prev_exhausted

\* the loop advances by one id less than a batch holds
BatchReceiveShortStep ==
    /\ batch_pc = "wait"
    /\ pc = "done"
    /\ IF outcome = "ok" /\ ~RaisesKeyError(result.items)
       THEN /\ videos' = videos \o VideosOf(result.items)
            /\ batch_i' = batch_i + BatchSize - 1
            /\ batch_pc' = "loop"
       ELSE /\ batch_pc' = "raised"
            /\ videos' = <<>>
            /\ batch_i' = 0
    /\ UNCHANGED <<ids, batchHist, pageVars, srvVars>>
    /\ UNCHANGED <<poolVars, op, execVars, histVars, rotVars>>
    /\ UNCHANGED durVars
    /\ UNCHANGED <<config, callers, refused, stored>>
    /\ UNCHANGED prev_exhausted

\* an error is caught inside the loop and the batch skipped
BatchReceiveSkipsBatch ==
    /\ batch_pc = "wait"
    /\ pc = "done"
    /\ videos' = IF outcome = "ok" /\ ~RaisesKeyError(result.items)
                 THEN videos \o VideosOf(result.items)
                 ELSE videos
    /\ batch_i' = batch_i + BatchSize
    /\ batch_pc' = "loop"
    /\ UNCHANGED <<ids, batchHist, pageVars, srvVars>>
    /\ UNCHANGED <<poolVars, op, execVars, histVars, rotVars>>
    /\ UNCHANGED durVars
    /\ UNCHANGED <<config, callers, refused, stored>>
    /\ UNCHANGED prev_exhausted

\* lines 365-387: the items of the answer are appended; an error of
\* _make_api_request or of the conversion of an item leaves the function
BatchReceive ==
    /\ batch_pc = "wait"
    /\ pc = "done"
    /\ IF outcome = "ok" /\ ~RaisesKeyError(result.items)
       THEN /\ videos' = videos \o VideosOf(result.items)
            /\ batch_i' = batch_i + BatchSize
            /\ batch_pc' = "loop"
       ELSE /\ batch_pc' = "raised"
            /\ videos' = <<>>
            /\ batch_i' = 0
    /\ UNCHANGED <<ids, batchHist, pageVars, srvVars>>
    /\ UNCHANGED <<poolVars, op, execVars, histVars, rotVars>>
    /\ UNCHANGED durVars
    /\ UNCHANGED <<config, callers, refused, stored>>
    /\ UNCHANGED prev_exhausted

\* a process with two credentials; the caller asks for the videos of `ids`,
\* maybe several times
BatchInit ==
    /\ InitWith(LoadApiKeys(NoKey, <<"A", "B">>, <<>>), FileAbsent)
    /\ max_results = 0
    /\ total = 0
    /\ ids \in {Items(0, m) : m \in Sizes}
    /\ DurIdle

BatchNext ==
    \/ GetVideosInfo
    \/ BatchLoop
    \/ ExecLoop
    \/ BatchRespond
    \/ BatchReceive

BatchSpec == BatchInit /\ [][BatchNext]_vars

(***************************************************************************)
(* A process that uses both fetches, one call at a time                    *)
(***************************************************************************)
\* more than one page, more than one batch
FetchSizes == {PageCap + 1}

FetchInit ==
    /\ InitWith(LoadApiKeys(NoKey, <<"A", "B">>, <<>>), FileAbsent)
    /\ max_results \in FetchSizes
    /\ total \in FetchSizes
    /\ ids \in {Items(0, m) : m \in FetchSizes}
    /\ DurIdle

FetchNext ==
    \/ BatchQuiescent /\ GetPlaylistVideos
    \/ PageLoop
    \/ PageRespond
    \/ PageReceive
    \/ GetVideosInfo
    \/ BatchLoop
    \/ BatchRespond
    \/ BatchReceive
    \/ ExecLoop

FetchSpec == FetchInit /\ [][FetchNext]_vars

(***************************************************************************)
(* parse_duration.  A text is a sequence of characters.  The encoder of    *)
(* the durations is the construction helper the spec names: "PT" followed  *)
(* by the components that are shown, <number>H, <number>M, <number>S; a    *)
(* component that is not zero is always shown.                             *)
(***************************************************************************)
\* the components of the encoder's input go up to MaxComponent
MaxComponent == 12
\* the other texts given to parse_duration are up to MaxTextLen characters
MaxTextLen == 5

DigitChars == <<"0", "1", "2", "3", "4", "5", "6", "7", "8", "9">>
IsDigit(c) == \E d \in 1..Len(DigitChars) : DigitChars[d] = c
DigitVal(c) == (CHOOSE d \in 1..Len(DigitChars) : DigitChars[d] = c) - 1

\* int() of a run of digits (lines 171-173)
RECURSIVE ToInt(_)
ToInt(digits) ==
    IF digits = <<>> THEN 0
    ELSE 10 * ToInt(SubSeq(digits, 1, Len(digits) - 1))
         + DigitVal(digits[Len(digits)])

\* the decimal digits of a number
RECURSIVE ToDigits(_)
ToDigits(n) ==
    IF n < 10 THEN <<DigitChars[n + 1]>>
    ELSE Append(ToDigits(n \div 10), DigitChars[(n % 10) + 1])

\* \d+ at position pos: the length of the longest run of digits there
RECURSIVE DigitRun(_, _)
DigitRun(str, pos) ==
    IF pos <= Len(str) /\ IsDigit(str[pos])
    THEN 1 + DigitRun(str, pos + 1)
    ELSE 0

\* (?:(\d+)X)? tried at position pos: the number of the group (0 when the
\* group does not take part, lines 171-173) and the position after it
Group(str, pos, letter) ==
    LET n == DigitRun(str, pos)
    IN IF n > 0 /\ pos + n <= Len(str) /\ str[pos + n] = letter
       THEN [value |-> ToInt(SubSeq(str, pos, pos + n - 1)),
             next |-> pos + n + 1]
       ELSE [value |-> 0, next |-> pos]

\* the pattern of the docstring, PT#M#S: no group for the hours
ParseDurationNoHours(duration_str_) ==
    IF duration_str_ = <<>> THEN 0
    ELSE IF ~(Len(duration_str_) >= 2 /\ duration_str_[1] = "P"
                /\ duration_str_[2] = "T")
         THEN 0
         ELSE LET minutes == Group(duration_str_, 3, "M")
                  seconds == Group(duration_str_, minutes.next, "S")
              IN minutes.value * 60 + seconds.value

\* parse_duration: re.match looks for the pattern at the start of the text
\* and is content with a part of it
ParseDuration(duration_str_) ==
    IF duration_str_ = <<>> THEN 0
    ELSE IF ~(Len(duration_str_) >= 2 /\ duration_str_[1] = "P"
                /\ duration_str_[2] = "T")
         THEN 0
         ELSE LET hours == Group(duration_str_, 3, "H")
                  minutes == Group(duration_str_, hours.next, "M")
                  seconds == Group(duration_str_, minutes.next, "S")
              IN hours.value * 3600 + minutes.value * 60 + seconds.value

Component(n, letter, shown) ==
    IF letter \in shown THEN Append(ToDigits(n), letter) ELSE <<>>

Encode(in) ==
    <<"P", "T">> \o Component(in.h, "H", in.shown)
                 \o Component(in.m, "M", in.shown)
                 \o Component(in.s, "S", in.shown)

EncoderInputs ==
    { in \in [h : 0..MaxComponent, m : 0..MaxComponent, s : 0..MaxComponent,
              shown : SUBSET {"H", "M", "S"}] :
        /\ in.h # 0 => "H" \in in.shown
        /\ in.m # 0 => "M" \in in.shown
        /\ in.s # 0 => "S" \in in.shown }

TextChars == {"P", "T", "1", "H", "M", "S", "D", "x"}
Texts == SeqsUpTo(TextChars, MaxTextLen)

\* the encoder builds the text of its input
EncodeDuration ==
    /\ dur_pc = "start"
    /\ duration_str' = Encode(dur_input)
    /\ dur_pc' = "encoded"
    /\ UNCHANGED <<dur_input, dur_seconds>>
    /\ UNCHANGED <<poolVars, op, execVars, histVars, rotVars>>
    /\ UNCHANGED <<pageVars, srvVars, batchVars, batchHist>>
    /\ UNCHANGED <<prev_exhausted, config, callers, refused, stored>>

\* parse_duration is called with the text
ParseDurationCall ==
    /\ dur_pc \in {"encoded", "text"}
    /\ dur_seconds' = ParseDuration(duration_str)
    /\ dur_pc' = IF dur_pc = "encoded" THEN "decoded" ELSE "parsed"
    /\ UNCHANGED <<dur_input, duration_str>>
    /\ UNCHANGED <<poolVars, op, execVars, histVars, rotVars>>
    /\ UNCHANGED <<pageVars, srvVars, batchVars, batchHist>>
    /\ UNCHANGED <<prev_exhausted, config, callers, refused, stored>>

\* parse_duration is given the text of the encoder or any other text
DurInit ==
    /\ InitWith(<<>>, FileAbsent)
    /\ max_results = 0
    /\ total = 0
    /\ ids = <<>>
    /\ dur_seconds = 0
    /\ \/ /\ dur_pc = "start"
          /\ dur_input \in EncoderInputs
          /\ duration_str = <<>>
       \/ /\ dur_pc = "text"
          /\ dur_input = NoInput
          /\ duration_str \in Texts

DurNext ==
    \/ EncodeDuration
    \/ ParseDurationCall

DurSpec == DurInit /\ [][DurNext]_vars

(***************************************************************************)
(* The construction of the manager from the configured sources             *)
(***************************************************************************)
\* the sources are configured and no process runs yet
LoadInit ==
    /\ config \in Configs
    /\ state_file \in {FileAbsent, FileIndex(0)}
    /\ api_keys = <<>>
    /\ current_index = 0
    /\ exhausted_keys = {}
    /\ op = "exit"
    /\ pc = "stopped"
    /\ IdleLocals
    /\ max_results = 0
    /\ total = 0
    /\ ids = <<>>
    /\ DurIdle

\* APIKeyManager() in a process that reads the configured sources
LoadStart ==
    /\ pc = "stopped"
    /\ Construct(LoadApiKeys(config[1], config[2], config[3]), state_file)
    /\ op' = "init"
    /\ ExecIdle
    /\ pc' = "idle"
    /\ rot_run' = 0
    /\ rot_start' = 0
    /\ rot_reason' = "none"
    /\ UNCHANGED <<pageVars, srvVars, batchVars, batchHist>>
    /\ UNCHANGED durVars
    /\ UNCHANGED <<config, callers, refused, stored>>
    /\ UNCHANGED prev_exhausted

LoadNext ==
    \/ LoadStart
    \/ Exit

LoadSpec == LoadInit /\ [][LoadNext]_vars

(***************************************************************************)
(* Several callers in _make_api_request at the same time.  The manager is  *)
(* one object of the process (line 150) and has no lock: the callers'      *)
(* steps interleave between any two accesses to its fields.                *)
(***************************************************************************)
\* the calls the callers of S have started
RECURSIVE CallsMade(_)
CallsMade(S) ==
    IF S = {} THEN 0
    ELSE LET t == CHOOSE x \in S : TRUE
         IN callers[t].made + CallsMade(S \ {t})

ConcFrame ==
    UNCHANGED <<op, execVars, histVars, rotVars, pageVars, srvVars,
                batchVars, batchHist, durVars, prev_exhausted, config,
                stored>>

\* caller t goes to position p with the fields of `changes` replaced (a local
\* that is not read again before it is assigned is set back to 0)
Moved(t, p, changes) ==
    callers' = [callers EXCEPT ![t] =
        [f \in DOMAIN CallerIdle |->
            IF f = "pc" THEN p
            ELSE IF f \in DOMAIN changes THEN changes[f]
            ELSE callers[t][f]]]

\* the call of caller t ends with outcome o after n upstream calls; its other
\* locals are gone
EndedAfter(t, o, n) ==
    callers' = [callers EXCEPT ![t] =
        [CallerIdle EXCEPT !.pc = "done", !.outcome = o, !.calls = n,
                           !.max_retries = callers[t].max_retries,
                           !.made = callers[t].made]]

Ended(t, o) == EndedAfter(t, o, callers[t].calls)

\* what the remote service answers to a caller
ConcResponses ==
    { NetworkFailure,
      Http(403, ErrorBody("quotaExceeded", 403, TRUE)),
      Http(200, OkBody(<<>>, <<>>)) }

\* lines 190-193: the call starts; the retry bound is taken
ConcStart(t) ==
    /\ callers[t].pc \in {"idle", "done"}
    /\ CallsMade(Callers) < MaxConcCalls
    /\ callers' = [callers EXCEPT ![t] =
           [CallerIdle EXCEPT !.pc = "loop", !.max_retries = GetKeyCount,
                              !.made = callers[t].made + 1]]
    /\ UNCHANGED <<poolVars, refused>>
    /\ ConcFrame

\* line 194, and get_current_key up to line 97
ConcLoop(t) ==
    /\ callers[t].pc = "loop"
    /\ IF callers[t].attempt < callers[t].max_retries
       THEN IF api_keys = <<>>
            THEN Ended(t, "no_keys")
            ELSE IF Cardinality(exhausted_keys) >= Len(api_keys)
                 THEN Ended(t, "all_exhausted")
                 ELSE Moved(t, "find", [attempts |-> 0])
       ELSE Ended(t, "retries_exhausted")
    /\ UNCHANGED <<poolVars, refused>>
    /\ ConcFrame

\* lines 98-99: the loop test of get_current_key and the test of the cursor
ConcFind(t) ==
    /\ callers[t].pc = "find"
    /\ IF callers[t].attempts < Len(api_keys)
       THEN IF current_index \notin exhausted_keys
            THEN Moved(t, "return", [attempts |-> 0])
            ELSE Moved(t, "advance", <<>>)
       ELSE Ended(t, "no_available_keys")
    /\ UNCHANGED <<poolVars, refused>>
    /\ ConcFrame

\* line 100: the cursor is read again for the key that is returned
ConcReturn(t) ==
    /\ callers[t].pc = "return"
    /\ IF current_index < Len(api_keys)
       THEN Moved(t, "call", [held |-> current_index])
       ELSE Ended(t, "index_error")
    /\ UNCHANGED <<poolVars, refused>>
    /\ ConcFrame

\* line 102: the cursor is read ...
ConcAdvanceRead(t) ==
    /\ callers[t].pc = "advance"
    /\ Moved(t, "advance_write", [tmp |-> current_index])
    /\ UNCHANGED <<poolVars, refused>>
    /\ ConcFrame

\* ... and written; line 103
ConcAdvanceWrite(t) ==
    /\ callers[t].pc = "advance_write"
    /\ current_index' = (callers[t].tmp + 1) % Len(api_keys)
    /\ Moved(t, "find", [attempts |-> callers[t].attempts + 1, tmp |-> 0])
    /\ UNCHANGED <<api_keys, exhausted_keys, state_file, refused>>
    /\ ConcFrame

\* lines 203-221: the request is sent with the key held and the answer
\* handled, up to the call of rotate_key
ConcRespond(t) ==
    /\ callers[t].pc = "call"
    /\ \E resp \in ConcResponses :
          LET n == callers[t].calls + 1
          IN CASE resp.kind = "neterr" ->
                    /\ EndedAfter(t, "network_error", n)
                    /\ UNCHANGED refused
               [] resp.kind = "http" /\ IsQuotaError(resp.body) ->
                    /\ Moved(t, "mark", [calls |-> n, held |-> 0])
                    /\ refused' = refused \cup {callers[t].held}
               [] resp.kind = "http" /\ ~IsQuotaError(resp.body) ->
                    /\ EndedAfter(t, IF RaisesForStatus(resp.status)
                                     THEN "network_error" ELSE "ok", n)
                    /\ UNCHANGED refused
    /\ UNCHANGED poolVars
    /\ ConcFrame

\* line 114: rotate_key marks the index the cursor is at
ConcMark(t) ==
    /\ callers[t].pc = "mark"
    /\ exhausted_keys' = exhausted_keys \cup {current_index}
    /\ Moved(t, "move", <<>>)
    /\ UNCHANGED <<api_keys, current_index, state_file, refused>>
    /\ ConcFrame

\* line 119: the cursor is read ...
ConcMoveRead(t) ==
    /\ callers[t].pc = "move"
    /\ Moved(t, "move_write", [tmp |-> current_index])
    /\ UNCHANGED <<poolVars, refused>>
    /\ ConcFrame

\* ... and written
ConcMoveWrite(t) ==
    /\ callers[t].pc = "move_write"
    /\ current_index' = (callers[t].tmp + 1) % Len(api_keys)
    /\ Moved(t, "save", [tmp |-> 0])
    /\ UNCHANGED <<api_keys, exhausted_keys, state_file, refused>>
    /\ ConcFrame

\* a rotation after which the attempt is not counted
ConcSaveNoCount(t) ==
    /\ callers[t].pc = "save"
    /\ \E io \in SaveOutcomes :
           state_file' = SaveCurrentIndex(state_file, current_index, io)
    /\ Moved(t, "loop", <<>>)
    /\ UNCHANGED <<api_keys, current_index, exhausted_keys, refused>>
    /\ ConcFrame

\* line 120 with lines 76-80, then lines 211-212
ConcSave(t) ==
    /\ callers[t].pc = "save"
    /\ \E io \in SaveOutcomes :
           state_file' = SaveCurrentIndex(state_file, current_index, io)
    /\ Moved(t, "loop", [attempt |-> callers[t].attempt + 1])
    /\ UNCHANGED <<api_keys, current_index, exhausted_keys, refused>>
    /\ ConcFrame

CallerStep(t) ==
    \/ ConcLoop(t)
    \/ ConcFind(t)
    \/ ConcReturn(t)
    \/ ConcAdvanceRead(t)
    \/ ConcAdvanceWrite(t)
    \/ ConcRespond(t)
    \/ ConcMark(t)
    \/ ConcMoveRead(t)
    \/ ConcMoveWrite(t)
    \/ ConcSave(t)

\* a process with two credentials, nothing called yet
ConcInit ==
    /\ InitWith(LoadApiKeys(NoKey, <<"A", "B">>, <<>>), FileAbsent)
    /\ max_results = 0
    /\ total = 0
    /\ ids = <<>>
    /\ DurIdle

ConcNext ==
    \/ \E t \in Callers : ConcStart(t)
    \/ \E t \in Callers : CallerStep(t)

ConcSpec == ConcInit /\ [][ConcNext]_vars

\* Every caller is a thread that is scheduled again and again, and every
\* request is answered or ends in a network error (the timeout of line 203).
\* Whether a caller makes another call is left open.
ConcFairSpec ==
    ConcSpec /\ \A t \in Callers : WF_vars(CallerStep(t))

(***************************************************************************)
(* APIKeyStorage: the keys the user keeps in .api_keys.json.  Every         *)
(* operation reads the file, changes the list and writes the file.         *)
(***************************************************************************)
KeyNames == <<"A", "B", "C", "D", "E">>
MaxStoredKeys == 3

\* the keys a user may enter: also nothing, blanks, a key with a blank
StorageKeys == {KeyNames[i] : i \in 1..MaxStoredKeys}
KeyInputs == StorageKeys \cup {"", " ", " A"}
KeyIds == 1..MaxStoredKeys

\* str.strip on the keys entered
Strip(k) ==
    CASE k = " "  -> ""
      [] k = " A" -> "A"
      [] OTHER    -> k

\* lines 27-36: base64, and a stored text that is not base64 taken as it is
EncodeKey(k) == <<"b64", k>>
DecodeKey(e) == IF e \in Seq(STRING) /\ Len(e) = 2 /\ e[1] = "b64" THEN e[2] ELSE e

\* lines 46-57: the write may fail (the error is printed): the file stays as
\* it was, or it was emptied already and reads as no keys (lines 43-44)
SaveData(keys) == stored' \in {keys, stored, <<>>}

StorageFrame ==
    UNCHANGED <<poolVars, op, execVars, histVars, rotVars, pageVars, srvVars,
                batchVars, batchHist, durVars, prev_exhausted, config,
                callers, refused>>

\* lines 84-119
AddKey(key) ==
    /\ Len(stored) < MaxStoredKeys
    /\ IF Strip(key) = ""
       THEN UNCHANGED stored
       ELSE IF \E i \in 1..Len(stored) : DecodeKey(stored[i].key) = Strip(key)
            THEN UNCHANGED stored
            ELSE LET key_id == Len(stored) + 1
                     new_key == [id |-> key_id, key |-> EncodeKey(Strip(key)),
                                 enabled |-> TRUE]
                 IN SaveData(Append(stored, new_key))
    /\ StorageFrame

\* lines 121-132: every key with that id is dropped
RemoveKey(key_id) ==
    /\ LET kept == SelectSeq(stored, LAMBDA k : k.id # key_id)
       IN IF Len(kept) < Len(stored)
          THEN SaveData(kept)
          ELSE UNCHANGED stored
    /\ StorageFrame

\* lines 134-144: the first key with that id is switched
ToggleKey(key_id, enabled) ==
    /\ LET found == {i \in 1..Len(stored) : stored[i].id = key_id}
       IN IF found = {}
          THEN UNCHANGED stored
          ELSE LET first == CHOOSE i \in found : \A j \in found : i <= j
               IN SaveData([stored EXCEPT ![first].enabled = enabled])
    /\ StorageFrame

\* lines 18-25: a new installation: the file is created with no keys
StorageInit ==
    /\ InitWith(<<>>, FileAbsent)
    /\ max_results = 0
    /\ total = 0
    /\ ids = <<>>
    /\ DurIdle

StorageNext ==
    \/ \E key \in KeyInputs : AddKey(key)
    \/ \E key_id \in KeyIds : RemoveKey(key_id)
    \/ \E key_id \in KeyIds, enabled \in BOOLEAN : ToggleKey(key_id, enabled)

StorageSpec == StorageInit /\ [][StorageNext]_vars

(***************************************************************************)
(* Properties                                                              *)
(***************************************************************************)
Executing == op = "execute"
Finished == op = "execute" /\ pc = "done"
ExhaustedErrors == {"retries_exhausted", "all_exhausted"}

\* the credentials (values) whose index is marked exhausted
ExhaustedCredentials ==
    {api_keys[i + 1] : i \in {x \in exhausted_keys : x < Len(api_keys)}}

\* get_current_key has just returned api_key
KeyReturned ==
    \/ op = "execute" /\ pc = "call"
    \/ op = "get_current_key" /\ outcome = "key"

\* the quota-exceeded shape of a body: the reason code in the error list, or
\* a 403 whose error text mentions quota
QuotaShape(body) ==
    /\ body.json
    /\ body.error = "dict"
    /\ \/ body.reason = "quotaExceeded"
       \/ body.code = 403 /\ body.quota_text

\* every upstream response of the call so far was quota-exceeded (a response
\* of another kind ends the call, so only the last one can be)
EveryResponseQuota ==
    response.kind = "none" \/ (response.kind = "http" /\ QuotaShape(response.body))

\* C1: one _make_api_request call on a pool of k credentials issues at most
\* k upstream calls, whatever the responses, the cursor and the exhausted set.
C1_AtMostKCalls ==
    Executing => Len(used) <= Len(api_keys)

C1_Witness ==
    /\ Finished
    /\ outcome \in ExhaustedErrors
    /\ Len(api_keys) = 3
    /\ Len(used) = 3

\* C2: a credential whose index is in exhausted_keys is never returned by
\* get_current_key again in the same process.
C2_ExhaustedNeverReturned ==
    KeyReturned => api_key \notin ExhaustedCredentials

\* the same by index: the index get_current_key returns from is not marked
C2_ExhaustedIndexNeverReturned ==
    KeyReturned => current_index \notin exhausted_keys

\* C3: with a non-empty credential list the cursor is a valid index, also
\* right after construction.
C3_CursorInRange ==
    api_keys # <<>> => (0 <= current_index /\ current_index < Len(api_keys))

\* C4: on a pool of n >= 1 credentials, none exhausted, where every response
\* is quota-exceeded, one call makes exactly n upstream calls, each with a
\* different credential, and raises the all-credentials-exhausted error.
C4_AllRefused ==
    (Finished /\ api_keys # <<>> /\ start_exhausted = {} /\ EveryResponseQuota)
        => /\ Len(used) = Len(api_keys)
           /\ \A i, j \in 1..Len(used) :
                  api_keys[used[i] + 1] = api_keys[used[j] + 1] => i = j
           /\ outcome \in ExhaustedErrors

\* C5: on a pool with no exhausted credential, a call that is refused j times
\* for quota and then succeeds has made j + 1 upstream calls and j rotations,
\* the j refused indices are exactly the exhausted ones, the cursor has
\* advanced by j (mod the pool size) and the successful body is returned.
C5_RotateThenSucceed ==
    (Finished /\ outcome = "ok" /\ start_exhausted = {})
        => LET j == Len(used) - 1
               n == Len(api_keys)
           IN /\ j < n
              /\ rotations = j
              /\ attempt = j
              /\ exhausted_keys = {used[i] : i \in 1..j}
              /\ Cardinality(exhausted_keys) = j
              /\ current_index = (start_index + j) % n
              /\ used[j + 1] = current_index
              /\ \A i \in 1..(j + 1) : used[i] = (start_index + i - 1) % n
              /\ response.kind = "http" /\ ~QuotaShape(response.body)
              /\ result = response.body

C5_Witness ==
    /\ Finished
    /\ outcome = "ok"
    /\ api_keys = <<"A", "B", "C">>
    /\ start_index = 0
    /\ start_exhausted = {}
    /\ used = <<0, 1>>
    /\ exhausted_keys = {0}
    /\ current_index = 1

\* C6: rotate_key called len(api_keys) times in a row brings current_index
\* back to the value it started from.
C6_RoundRobinClosure ==
    (op = "rotate_key" /\ api_keys # <<>> /\ rot_run = Len(api_keys))
        => current_index = rot_start

\* the same from a cursor that is a valid index
C6_ClosureFromValidCursor ==
    (op = "rotate_key" /\ api_keys # <<>> /\ rot_run = Len(api_keys)
       /\ rot_start < Len(api_keys))
        => current_index = rot_start

\* C7: an upstream call that fails with a network error ends the call with
\* an error after that attempt: no rotation, exhausted_keys and the state
\* file unchanged, and no further upstream call of this execute.
C7_NetworkErrorEndsCall ==
    [][ /\ (pc = "call" /\ used' # used /\ response'.kind = "neterr")
            => /\ pc' = "done"
               /\ outcome' = "network_error"
               /\ Len(used') = Len(used) + 1
               /\ rotations' = rotations
               /\ exhausted_keys' = exhausted_keys
               /\ state_file' = state_file
               /\ current_index' = current_index
        /\ (Finished /\ response.kind = "neterr" /\ used' # used)
            => used' = <<>> ]_vars

C7_Witness ==
    /\ Finished
    /\ response.kind = "neterr"
    /\ outcome = "network_error"
    /\ Len(used) = 2
    /\ rotations = 1

\* C8: a 4xx or 5xx response whose JSON body has not the quota-exceeded shape
\* is a hard failure: the call ends with an error, without retry or rotation,
\* exhausted_keys unchanged.
C8_UpstreamErrorEndsCall ==
    [][ /\ (/\ pc = "call" /\ used' # used
            /\ response'.kind = "http"
            /\ response'.status >= 400
            /\ response'.body.json
            /\ ~QuotaShape(response'.body))
            => /\ pc' = "done"
               /\ outcome' \notin {"ok", "none"}
               /\ Len(used') = Len(used) + 1
               /\ rotations' = rotations
               /\ attempt' = attempt
               /\ exhausted_keys' = exhausted_keys
               /\ state_file' = state_file
               /\ current_index' = current_index
        /\ (Finished /\ response.kind = "http" /\ response.status >= 400
              /\ used' # used)
            => used' = <<>> ]_vars

C8_Witness ==
    /\ Finished
    /\ response.kind = "http"
    /\ response.status = 500
    /\ ~QuotaShape(response.body)
    /\ outcome = "network_error"
    /\ Len(used) = 2
    /\ exhausted_keys = {used[1]}

\* C9: a paginated fetch never returns more than max_results items, also
\* when a page carries more items than were asked for.
C9_NeverMoreThanMax ==
    page_pc = "returned" => Len(video_ids) <= max_results

\* C10: against a service that holds `total` items and honours the protocol,
\* the fetch returns exactly min(max_results, total) items: the first ones of
\* the collection, in order.
C10_ExactLength ==
    (page_pc = "returned" /\ honest)
        => /\ Len(video_ids) = Min(max_results, total)
           /\ video_ids = Items(0, Min(max_results, total))

C10_Witness ==
    /\ page_pc = "returned"
    /\ honest
    /\ max_results = 120
    /\ total = 120
    /\ page_requests = 3
    /\ Len(video_ids) = 120
    /\ exhausted_keys = {}

\* C11: every paginated fetch is finite: whatever the remote service answers
\* (also pages with a continuation token and no items), a fetch that has
\* started eventually returns or raises.
C11_FetchTerminates ==
    (page_pc \in {"loop", "wait"}) ~> (page_pc \in {"returned", "raised"})

\* a _make_api_request call of the fetch has ended with an error
PageCallFailed == page_pc = "wait" /\ pc = "done" /\ outcome # "ok"
BatchCallFailed == batch_pc = "wait" /\ pc = "done" /\ outcome # "ok"

\* C12: when a _make_api_request call of a paginated fetch or of a batch
\* fetch ends with an error, the next step of the fetch raises that error:
\* no list is returned, and no page or batch is requested in that step nor
\* later (the requests of a fetch that has raised stay as they are until a
\* new fetch starts from nothing).
C12_FirstErrorEndsFetch ==
    [][ /\ PageCallFailed
            => /\ page_pc' = "raised"
               /\ video_ids' = <<>>
               /\ page_requests' = page_requests
               /\ used' = used
               /\ outcome' = outcome
        /\ BatchCallFailed
            => /\ batch_pc' = "raised"
               /\ videos' = <<>>
               /\ batch_calls' = batch_calls
               /\ used' = used
               /\ outcome' = outcome
        /\ page_pc = "raised"
            => \/ page_pc' = "raised" /\ page_requests' = page_requests
               \/ page_pc' = "loop" /\ page_requests' = 0 /\ video_ids' = <<>>
        /\ batch_pc = "raised"
            => \/ batch_pc' = "raised" /\ batch_calls' = batch_calls
               \/ batch_calls' = <<>> /\ videos' = <<>> ]_vars

\* a paginated fetch has failed on its second page and a batch fetch on its
\* second batch, with different errors
C12_Witness ==
    /\ page_pc = "raised"
    /\ page_requests = 2
    /\ batch_pc = "raised"
    /\ Len(batch_calls) = 2
    /\ Len(served) = 1
    /\ outcome = "network_error"
    /\ exhausted_keys = {}

CeilDiv(a, b) == (a + b - 1) \div b

RECURSIVE Flatten(_)
Flatten(lists) ==
    IF lists = <<>> THEN <<>> ELSE Head(lists) \o Flatten(Tail(lists))

\* C13: with no quota rotation get_videos_info on m ids sends the chunks
\* ids[50i .. 50i+49] in input order, one upstream call each: every call made
\* so far carries its chunk, and a fetch that has returned has made
\* ceil(m / 50) calls whose id lists are 50 long except possibly the last and
\* together are the input; m = 0 makes no call.
C13_ChunksOfFifty ==
    (batch_pc # "idle" /\ ~batch_rotated)
        => LET m == Len(ids)
               n == Len(batch_calls)
           IN /\ n <= CeilDiv(m, 50)
              /\ \A k \in 1..n :
                    batch_calls[k] =
                        SubSeq(ids, 50 * (k - 1) + 1, Min(50 * k, m))
              /\ batch_pc = "returned"
                    => /\ n = CeilDiv(m, 50)
                       /\ Flatten(batch_calls) = ids
                       /\ \A k \in 1..(n - 1) : Len(batch_calls[k]) = 50
                       /\ n > 0 => Len(batch_calls[n]) \in 1..50
                       /\ m = 0 => batch_calls = <<>>

C13_Witness ==
    /\ batch_pc = "returned"
    /\ ~batch_rotated
    /\ Len(ids) = 120
    /\ Len(batch_calls) = 3
    /\ Len(batch_calls[1]) = 50
    /\ Len(batch_calls[2]) = 50
    /\ Len(batch_calls[3]) = 20

\* C14: get_videos_info on m ids returns at most m items.
C14_AtMostM ==
    batch_pc = "returned" => Len(videos) <= Len(ids)

\* C14 as amended: it returns at most m items when no answer of the remote
\* service carries more items than ids were asked for in its request.
C14_AtMostMWhenAsked ==
    (batch_pc = "returned" /\ honest) => Len(videos) <= Len(ids)

C14_Witness ==
    /\ batch_pc = "returned"
    /\ honest
    /\ Len(ids) = 120
    /\ Len(videos) = 119
    /\ batch_rotated

\* C15: the output of get_videos_info is the concatenation of the items of
\* the answers in chunk order, each answer in the order the remote service
\* gave it.
C15_ConcatInChunkOrder ==
    batch_pc \in {"loop", "returned"} => videos = VideosOf(Flatten(served))

C15_Witness ==
    /\ batch_pc = "returned"
    /\ Len(ids) = 120
    /\ Len(served) = 3
    /\ served[1] = Reverse(Items(0, 50))
    /\ served[2] = Items(50, 50)
    /\ served[3] = Reverse(Items(100, 20))
    /\ videos[1] = VideoOf(50)
    /\ videos[51] = VideoOf(51)
    /\ videos[101] = VideoOf(120)

\* the grammar: "PT", then at most one hour, one minute and one second
\* component in that order, each a run of digits and its letter, and nothing
\* else
IsComponent(part, letter) ==
    \/ part = <<>>
    \/ /\ Len(part) >= 2
       /\ part[Len(part)] = letter
       /\ \A k \in 1..(Len(part) - 1) : IsDigit(part[k])

InGrammar(text) ==
    /\ Len(text) >= 2
    /\ text[1] = "P"
    /\ text[2] = "T"
    /\ \E a \in 2..Len(text) : \E b \in a..Len(text) :
          /\ IsComponent(SubSeq(text, 3, a), "H")
          /\ IsComponent(SubSeq(text, a + 1, b), "M")
          /\ IsComponent(SubSeq(text, b + 1, Len(text)), "S")

\* C16: round trip: parse_duration of the text the encoder builds from
\* (h, m, s) is 3600 h + 60 m + s.
C16_RoundTrip ==
    dur_pc = "decoded"
        => dur_seconds = 3600 * dur_input.h + 60 * dur_input.m + dur_input.s

C16_Witness ==
    /\ dur_pc = "decoded"
    /\ duration_str = <<"P", "T", "1", "H", "1", "2", "S">>
    /\ dur_seconds = 3612

\* C17: parse_duration returns 0 for the empty text and for every text that
\* is not of the grammar.
C17_ZeroOutsideGrammar ==
    (dur_pc = "parsed" /\ ~InGrammar(duration_str)) => dur_seconds = 0

\* rotate_key has just returned: called by the operator, or by
\* _make_api_request after a quota refusal
JustRotated ==
    \/ op = "rotate_key"
    \/ op = "execute" /\ pc = "loop" /\ rotations > 0

\* the step is a rotate_key call
RotateStep == op' = "rotate_key" \/ rotations' = rotations + 1

\* the step is the construction of a new process
StartStep == pc = "stopped" /\ pc' # "stopped"

\* C18: after every rotate_key call the persisted cursor equals the new
\* current_index.
C18_PersistedCursor ==
    JustRotated => LoadCurrentIndex(state_file) = current_index

\* C18 as amended: after a rotate_key call on a non-empty pool the state file
\* holds the new current_index when its write succeeded, and is as it was or
\* unreadable when the write failed; a process started at that point starts
\* with the cursor the file holds.
C18_PersistedWhenWritten ==
    [][ /\ (RotateStep /\ api_keys # <<>>)
            => \/ state_file' = FileIndex(current_index')
               \/ state_file' = state_file
               \/ state_file' = FileCorrupt
        /\ StartStep
            => /\ state_file' = state_file
               /\ current_index' = LoadCurrentIndex(state_file) ]_vars

\* a process of three credentials starts where the process before it had
\* rotated to
C18_Witness ==
    /\ op = "init"
    /\ pc = "idle"
    /\ Len(api_keys) = 3
    /\ state_file = FileIndex(2)
    /\ current_index = 2

\* C19: a process that starts has no exhausted credential and the cursor of
\* the state file; a credential exhausted in the process before can be
\* returned by get_current_key and used again.
C19_RestartForgetsExhausted ==
    (op = "init" /\ pc = "idle")
        => /\ exhausted_keys = {}
           /\ current_index = LoadCurrentIndex(state_file)
           /\ ExhaustedCredentials = {}

\* the first request of the new process is made with a credential that was
\* exhausted when the process before ended, at the persisted cursor
C19_Witness ==
    /\ Finished
    /\ outcome = "ok"
    /\ used = <<1>>
    /\ state_file = FileIndex(1)
    /\ api_keys = <<"A", "B">>
    /\ api_key = "B"
    /\ prev_exhausted = {"A", "B"}

\* the state file holds a cursor the process can use: an index of api_keys
UsableCursorFile ==
    /\ state_file.kind = "index"
    /\ api_keys # <<>> => state_file.idx < Len(api_keys)

\* C20: when the state file is absent or corrupt (unreadable, or not holding
\* a usable cursor), the process that is constructed starts with cursor 0.
C20_UnusableFileStartsAtZero ==
    (op = "init" /\ pc = "idle" /\ ~UsableCursorFile) => current_index = 0

\* the same for a file that is absent or cannot be read
C20_UnreadableFileStartsAtZero ==
    (op = "init" /\ pc = "idle" /\ state_file.kind # "index")
        => current_index = 0

(***************************************************************************)
(* The credential list                                                     *)
(***************************************************************************)
\* the values the sources configure, in the order of the sources: the single
\* variable, the pieces of the multiple variable that are not blank, the
\* active keys of the storage
Configured(c) ==
    (IF c[1] # NoKey THEN <<c[1]>> ELSE <<>>)
        \o SelectSeq(c[2], LAMBDA k : k # Blank) \o c[3]

\* s without the later occurrences of its values
RECURSIVE FirstOccurrences(_)
FirstOccurrences(s) ==
    IF s = <<>> THEN <<>>
    ELSE LET front == FirstOccurrences(SubSeq(s, 1, Len(s) - 1))
         IN IF s[Len(s)] \in Range(front) THEN front
            ELSE Append(front, s[Len(s)])

\* C21: the list a process loads is the merge of the configured sources in
\* their order with the later duplicates removed: no value is twice in
\* api_keys and every configured value is in it
C21_MergedWithoutDuplicates ==
    (op = "init" /\ pc = "idle") =>
        /\ api_keys = FirstOccurrences(Configured(config))
        /\ \A i, j \in 1..Len(api_keys) : api_keys[i] = api_keys[j] => i = j
        /\ Range(api_keys) = Range(Configured(config))

\* C22: a process whose credential list is empty does not come to run (its
\* construction fails), and a request on an empty pool does not end with an
\* all-credentials-exhausted error.
C22_NoCredentialsAtConstruction ==
    /\ pc # "stopped" => api_keys # <<>>
    /\ (Finished /\ api_keys = <<>>) => outcome \notin ExhaustedErrors

(***************************************************************************)
(* get_current_key and rotate_key                                          *)
(***************************************************************************)
\* the valid indices of the pool, and those not marked exhausted
Indices == 0..(Len(api_keys) - 1)
Remaining(exhausted) == {i \in Indices : i \notin exhausted}

\* the first index at or cyclically after idx that is not in exhausted_keys
FirstRemaining(idx) ==
    LET n == Len(api_keys)
        d == CHOOSE k \in 0..(n - 1) :
                 /\ ((idx + k) % n) \notin exhausted_keys
                 /\ \A j \in 0..(k - 1) : ((idx + j) % n) \in exhausted_keys
    IN (idx + d) % n

\* the step is a get_current_key call, made by a caller or by the loop of
\* _make_api_request
GetCurrentKeyStep ==
    \/ op' = "get_current_key"
    \/ op = "execute" /\ pc = "loop" /\ attempt < max_retries

\* get_current_key returns a key in the step
ReturnsKey ==
    \/ op' = "get_current_key" /\ outcome' = "key"
    \/ op' = "execute" /\ pc' = "call"

\* get_current_key raises the all-exhausted error in the step
RaisesAllExhausted == pc' = "done" /\ outcome' = "all_exhausted"

\* C23: get_current_key on a pool with credentials returns the credential at
\* the first index, at or cyclically after current_index, that is not in
\* exhausted_keys, and raises the all-exhausted error if every index is in it.
C23_FirstRemainingKey ==
    [][ (GetCurrentKeyStep /\ api_keys # <<>>) =>
            IF Remaining(exhausted_keys) # {}
            THEN /\ ReturnsKey
                 /\ current_index' = FirstRemaining(current_index)
                 /\ api_key' = api_keys[current_index' + 1]
            ELSE RaisesAllExhausted ]_vars

\* the same for the calls made with the cursor and the exhausted indices
\* inside the pool
C23_FirstRemainingKeyInRange ==
    [][ (/\ GetCurrentKeyStep
         /\ current_index \in Indices
         /\ exhausted_keys \subseteq Indices) =>
            IF Remaining(exhausted_keys) # {}
            THEN /\ ReturnsKey
                 /\ current_index' = FirstRemaining(current_index)
                 /\ api_key' = api_keys[current_index' + 1]
            ELSE RaisesAllExhausted ]_vars

\* the rotate_key call of the step has the quota-exceeded reason
QuotaRotateStep ==
    \/ op' = "execute" /\ rotations' = rotations + 1
    \/ op' = "rotate_key" /\ rot_reason' = "quota_exceeded"

\* C24: rotate_key on a pool with credentials moves current_index to
\* (current_index + 1) mod len(api_keys); with the quota-exceeded reason it
\* adds the index it moved from to exhausted_keys, with any other reason it
\* leaves exhausted_keys as it is.
C24_RotateAdvancesAndMarks ==
    [][ (RotateStep /\ api_keys # <<>>) =>
            /\ current_index' = (current_index + 1) % Len(api_keys)
            /\ exhausted_keys' = IF QuotaRotateStep
                                 THEN exhausted_keys \cup {current_index}
                                 ELSE exhausted_keys ]_vars

\* a quota rotation that marked index 0, then an administrative rotation that
\* moved the cursor back to 0 and marked nothing
C24_Witness ==
    /\ op = "rotate_key"
    /\ rot_reason = "manual"
    /\ rot_run = 2
    /\ api_keys = <<"A", "B">>
    /\ current_index = 0
    /\ exhausted_keys = {0}

(***************************************************************************)
(* The classification of the responses                                     *)
(***************************************************************************)
\* the last response had a body that is not JSON
MalformedResponse == response.kind = "http" /\ ~response.body.json

\* C25: a response whose body cannot be parsed ends the call, with no retry
\* and no rotation after it, with an outcome that is not the outcome of a
\* rejected (non-2xx) response or of a network error.
C25_ParseErrorDistinct ==
    (Executing /\ MalformedResponse) =>
        /\ pc = "done"
        /\ outcome # "network_error"

\* the malformed body does end the call without a retry or a rotation
C25_ParseErrorEndsCall ==
    [][ (op = "execute" /\ pc = "call" /\ response'.kind = "http"
           /\ ~response'.body.json) =>
            /\ pc' = "done"
            /\ outcome' \in JsonErrors
            /\ UNCHANGED <<poolVars, rotations>> ]_vars

\* quota-exceeded as the claim has it: the reason code in the error list of
\* the body, or HTTP status 403 with an error text that mentions quota
QuotaByStatus(resp) ==
    /\ resp.kind = "http"
    /\ resp.body.json
    /\ \/ resp.body.error = "dict" /\ resp.body.reason = "quotaExceeded"
       \/ resp.status = 403 /\ resp.body.error # "none" /\ resp.body.quota_text

\* the step handles the response of an upstream call that has a JSON body
AnswerStep ==
    op = "execute" /\ pc = "call" /\ response'.kind = "http"
        /\ response'.body.json

\* C26: a response is handled as quota-exceeded (rotate and retry) if and only
\* if its error list has the quota-exceeded reason code or the HTTP status is
\* 403 and the error text mentions quota; every other response ends the call
\* as a success or a failure.
C26_QuotaIffReasonOrStatus ==
    [][ AnswerStep =>
            IF QuotaByStatus(response')
            THEN pc' = "loop" /\ rotations' = rotations + 1
            ELSE pc' = "done" /\ rotations' = rotations
                   /\ outcome' \in {"ok", "network_error"} ]_vars

\* the same with the code of the error object in the body in place of the
\* HTTP status
C26_QuotaIffReasonOrBodyCode ==
    [][ AnswerStep =>
            IF QuotaShape(response'.body)
            THEN pc' = "loop" /\ rotations' = rotations + 1
            ELSE pc' = "done" /\ rotations' = rotations
                   /\ outcome' \in {"ok", "network_error"} ]_vars

(***************************************************************************)
(* The exhausted set and the attempt bound                                 *)
(***************************************************************************)
\* C27: exhausted_keys holds only valid indices, and get_available_key_count
\* is the number of indices get_current_key can still return, between 0 and
\* len(api_keys).
C27_ExhaustedWithinPool ==
    /\ exhausted_keys \subseteq Indices
    /\ GetAvailableKeyCount = Cardinality(Remaining(exhausted_keys))
    /\ GetAvailableKeyCount \in 0..Len(api_keys)

\* C28: the attempt bound of a call is the number of the credentials that are
\* not exhausted when it starts, and the call issues at most that many
\* upstream calls.
C28_AttemptBoundIsRemaining ==
    Executing =>
        /\ max_retries = Cardinality(Remaining(start_exhausted))
        /\ Len(used) <= Cardinality(Remaining(start_exhausted))

\* the bound on the upstream calls alone
C28_AtMostRemainingCalls ==
    Executing => Len(used) <= Cardinality(Remaining(start_exhausted))

WriteFailedStep ==
    /\ op = "execute"
    /\ rotations' = rotations + 1
    /\ state_file' # FileIndex(current_index')

\* C30: when the write of the state file fails in a rotation made by a call,
\* the cursor still advances, the index is still marked exhausted and the
\* call goes on to the next get_current_key.
C30_WriteFailureKeepsGoing ==
    [][ WriteFailedStep =>
            /\ current_index' = (current_index + 1) % Len(api_keys)
            /\ exhausted_keys' = exhausted_keys \cup {current_index}
            /\ pc' = "loop"
            /\ outcome' = "none" ]_vars

\* the first credential was refused, the state file could not be written, and
\* the call succeeded with the second credential
C30_Witness ==
    /\ Finished
    /\ outcome = "ok"
    /\ api_keys = <<"A", "B">>
    /\ used = <<0, 1>>
    /\ exhausted_keys = {0}
    /\ current_index = 1
    /\ state_file = FileAbsent

(***************************************************************************)
(* The sequence of the page requests                                       *)
(***************************************************************************)
\* the step issues a page request of the fetch
PageRequestStep == page_pc = "loop" /\ page_pc' = "wait"

\* C31: the first page request of every fetch carries no token; every later
\* one is issued when the response to the one before it has been received,
\* and carries the token of that response.
C31_TokenOfLastResponse ==
    [][ PageRequestStep =>
            IF page_requests = 0
            THEN params'.pageToken = <<>>
            ELSE /\ pc = "done"
                 /\ outcome = "ok"
                 /\ result.next # <<>>
                 /\ params'.pageToken = result.next ]_vars

\* the third request of a fetch has been issued with the token of the
\* second page
C31_Witness ==
    /\ page_pc = "wait"
    /\ pc = "loop"
    /\ used = <<>>
    /\ page_requests = 3
    /\ Len(video_ids) = 2 * PageCap
    /\ params.pageToken = <<2 * PageCap>>

\* C32: a page request is issued only while fewer than max_results ids are
\* collected and, after the first one, only if the last response carried a
\* token; it asks for min(50, max_results - len(video_ids)) items, a number
\* between 1 and 50.  With max_results <= 0 no request is issued.
C32_PageSizeAndStop ==
    [][ PageRequestStep =>
            /\ Len(video_ids) < max_results
            /\ page_requests > 0 => next_page_token # <<>>
            /\ params'.maxResults =
                   Min(PageCap, max_results - Len(video_ids))
            /\ params'.maxResults \in 1..PageCap ]_vars

\* 70 of 120 items were asked for: the second request asked for 20, and the
\* fetch returned with a token left over
C32_Witness ==
    /\ page_pc = "returned"
    /\ max_results = PageCap + 20
    /\ Len(video_ids) = PageCap + 20
    /\ params.maxResults = 20
    /\ next_page_token # <<>>
    /\ page_requests = 2

(***************************************************************************)
(* Concurrent callers                                                      *)
(***************************************************************************)
Running(t) == callers[t].pc \notin {"idle", "done"}

\* C33: with callers running _make_api_request at the same time on the one
\* manager, every call issues at most as many upstream calls as the bound it
\* took when it started, whatever the other callers do to the pool, and every
\* call ends.
C33_BoundedAndTerminates ==
    /\ [](\A t \in Callers : callers[t].calls <= callers[t].max_retries)
    /\ \A t \in Callers : Running(t) ~> (callers[t].pc = "done")

\* a call that used its whole bound while the other caller also had a key
\* refused, and ended
C33_Witness ==
    /\ callers[1].pc = "done"
    /\ callers[1].calls = callers[1].max_retries
    /\ callers[1].calls = 2
    /\ callers[2].calls >= 1
    /\ Running(2)

\* C34: an index is in exhausted_keys only if an upstream call made with the
\* credential at that index was refused for quota, in every interleaving of
\* the callers.
C34_ExhaustedOnlyIfRefused == exhausted_keys \subseteq refused

(***************************************************************************)
(* What a call leaves of the pool                                          *)
(***************************************************************************)
\* C35: a get_current_key call changes neither current_index nor
\* exhausted_keys nor the state file.
C35_GetCurrentKeyPureRead ==
    [][ GetCurrentKeyStep =>
            UNCHANGED <<current_index, exhausted_keys, state_file>> ]_vars

\* a get_current_key call leaves exhausted_keys and the state file alone, and
\* moves the cursor only off an exhausted index
C35_GetCurrentKeyMovesCursorOnly ==
    [][ GetCurrentKeyStep =>
            /\ UNCHANGED <<exhausted_keys, state_file>>
            /\ current_index' # current_index =>
                   current_index \in exhausted_keys ]_vars

\* the cursor was rotated back to the exhausted index 0 and persisted;
\* get_current_key has moved it to 1 and the state file still holds 0
C35_Witness ==
    /\ op = "get_current_key"
    /\ outcome = "key"
    /\ api_keys = <<"A", "B">>
    /\ exhausted_keys = {0}
    /\ current_index = 1
    /\ state_file = FileIndex(0)

\* the k-th chunk of the ids given to get_videos_info
Chunk(k) == SubSeq(ids, BatchSize * (k - 1) + 1, Min(BatchSize * k, Len(ids)))

\* every answer of the videos endpoint held the ids it was asked for
AnsweredAsAsked == \A k \in 1..Len(served) : served[k] = Chunk(k)

\* a request of a fetch is refused for quota and the pool rotated
FetchRotateStep ==
    /\ page_pc = "wait" \/ batch_pc = "wait"
    /\ pc = "call"
    /\ rotations' = rotations + 1

\* C36: a quota rotation inside a paginated or batch fetch is transparent.
\* The request in flight always carries the continuation token, page size
\* and ids of the fetch's position, and a batch fetch's position is the
\* number of answers it got; the step that rotates changes neither the
\* request nor what the fetch has collected and goes round again; a call of
\* the fetch ends for want of credentials only when none remains; and a fetch
\* that returns, rotated or not, returns what an unrotated one returns: the
\* first min(max_results, total) items of an honest collection, the videos
\* of all the ids when every chunk was answered as asked.
C36_RotationTransparent ==
    /\ []((page_pc = "wait" /\ pc \in {"loop", "call"}) => params = PageParams)
    /\ []((batch_pc = "wait" /\ pc \in {"loop", "call"})
            => /\ params = BatchParams
               /\ batch_i = BatchSize * Len(served))
    /\ []((pc = "done" /\ outcome \in ExhaustedErrors)
            => Remaining(exhausted_keys) = {})
    /\ [][ /\ FetchRotateStep
               => /\ params' = params
                  /\ pc' = "loop"
                  /\ UNCHANGED <<video_ids, next_page_token, batch_i, videos>>
                  /\ Remaining(exhausted_keys') # {} => attempt' < max_retries
           /\ (page_pc = "wait" /\ page_pc' = "returned" /\ honest)
               => video_ids' = Items(0, Min(max_results, total))
           /\ (batch_pc # "returned" /\ batch_pc' = "returned"
                /\ AnsweredAsAsked)
               => videos' = VideosOf(ids) ]_vars

C36_Witness ==
    /\ page_pc = "returned"
    /\ video_ids = Items(0, PageCap + 1)
    /\ batch_pc = "returned"
    /\ batch_rotated
    /\ exhausted_keys = {0}
    /\ Len(batch_calls) = 3
    /\ batch_calls[2] = Chunk(2)
    /\ batch_calls[3] = Chunk(2)
    /\ used = <<0, 1>>
    /\ videos = VideosOf(ids)

\* a step of an execute call that has met no quota error
UnrefusedStep ==
    /\ op = "execute"
    /\ pc \in {"loop", "call"}
    /\ attempt = 0
    /\ rotations' = 0
    /\ op' = "execute"

\* an execute call has ended with the data of its first response
FirstResponseSucceeded ==
    /\ op = "execute"
    /\ pc = "done"
    /\ outcome = "ok"
    /\ rotations = 0

\* the next execute call starts right after
NextExecuteStarts == op' = "execute" /\ pc' = "loop"

\* C37: an execute call whose first response is a success leaves the pool as
\* it found it: no step of the call changes exhausted_keys, the state file or
\* the list of keys, there is no rotation, and the cursor stays on the
\* credential that was used; the execute call that follows it is given that
\* same credential by get_current_key.
C37_SuccessKeepsCredential ==
    [][ /\ UnrefusedStep
            => UNCHANGED <<exhausted_keys, state_file, api_keys>>
        /\ (UnrefusedStep /\ pc' = "done" /\ outcome' = "ok")
            => /\ used' = <<current_index'>>
               /\ exhausted_keys' = start_exhausted'
               /\ current_index' \notin exhausted_keys'
               /\ api_key' = api_keys'[current_index' + 1]
        /\ (FirstResponseSucceeded /\ NextExecuteStarts)
            => /\ UNCHANGED poolVars
               /\ GetCurrentKeyResult(api_keys', current_index',
                                      exhausted_keys')
                      = KeyResult("key", current_index, api_key) ]_vars

C37_Witness ==
    /\ FirstResponseSucceeded
    /\ api_keys = <<"A", "B">>
    /\ start_exhausted = {0}
    /\ exhausted_keys = {0}
    /\ used = <<1>>
    /\ api_key = "B"
    /\ current_index = 1
    /\ state_file = FileIndex(1)

\* C38: the keys stored by APIKeyStorage have pairwise distinct ids.
C38_DistinctIds ==
    \A i, j \in 1..Len(stored) : i # j => stored[i].id # stored[j].id

====
